---- MODULE Spec2Model ----
(***************************************************************************)
(* Model of src/scripts/squeeze_indicator.py: the squeeze momentum         *)
(* indicator (bar loading, squeeze_indicator, the colour loop and the      *)
(* printed result).                                                        *)
(*                                                                         *)
(* Numbers are exact: a number is NaN or (n + c*sqrt(r))/d, so that the    *)
(* rolling population standard deviation and every comparison the code     *)
(* makes are decided without rounding.  pandas/numpy semantics that the    *)
(* script relies on (NaN for windows that are not full, NaN comparisons    *)
(* being False, padding of ragged rows) are modelled by what they do.      *)
(***************************************************************************)
EXTENDS Integers, Sequences, FiniteSets, TLC

(***************************************************************************)
(* Bounds of the model and constants of the program.                       *)
(***************************************************************************)
\* largest number of full bars in a generated payload
MaxBars == 4
\* closes of generated bars range over 0..MaxPrice
MaxPrice == 1
\* generated window lengths range over -1..MaxLen
MaxLen == 2
\* number of bars of the flat series (close 10, high 11, low 9)
FlatBars == 25
\* parameter setup of __main__
MainLength == 20
mult == 2
MainLengthKC == 20
\* mult_KC = 1.5 = mult_KC_num / mult_KC_den
mult_KC_num == 3
mult_KC_den == 2
\* number of columns of the frame
NCols == 6

(***************************************************************************)
(* Exact numbers.                                                          *)
(***************************************************************************)
Abs(x) == IF x < 0 THEN -x ELSE x

RECURSIVE GCD(_, _)
GCD(a, b) == IF b = 0 THEN a ELSE GCD(b, a % b)

NaN == [nan |-> TRUE, n |-> 0, d |-> 1, c |-> 0, r |-> 0]

\* (n + c*sqrt(r))/d in lowest terms, d > 0
Num(n, c, r, d) ==
  LET cc == IF r = 0 THEN 0 ELSE c
      rr == IF cc = 0 THEN 0 ELSE r
      s  == IF d < 0 THEN -1 ELSE 1
      g0 == GCD(GCD(Abs(n), Abs(cc)), Abs(d))
      g  == IF g0 = 0 THEN 1 ELSE g0
  IN  [nan |-> FALSE, n |-> (s * n) \div g, d |-> (s * d) \div g,
       c |-> (s * cc) \div g, r |-> rr]

Int2Num(k) == Num(k, 0, 0, 1)
Rat(n, d) == Num(n, 0, 0, d)

\* x + y; at most one operand carries a square root (or both the same one)
Add(x, y) ==
  IF x.nan \/ y.nan THEN NaN
  ELSE Num(x.n * y.d + y.n * x.d, x.c * y.d + y.c * x.d,
           IF x.c # 0 THEN x.r ELSE y.r, x.d * y.d)

Neg(x) == IF x.nan THEN NaN ELSE Num(-x.n, -x.c, x.r, x.d)

Sub(x, y) == Add(x, Neg(y))

\* x * y for a rational y
Mul(x, y) ==
  IF x.nan \/ y.nan THEN NaN
  ELSE Num(x.n * y.n, x.c * y.n, x.r, x.d * y.d)

\* x / y for a rational y # 0
Div(x, y) ==
  IF x.nan \/ y.nan THEN NaN
  ELSE Num(x.n * y.d, x.c * y.d, x.r, x.d * y.n)

\* sqrt of a rational x >= 0
Sqrt(x) ==
  IF x.nan THEN NaN ELSE Num(0, 1, x.n * x.d, x.d)

\* k*sqrt(r) < a
KSqrtLt(k, r, a) ==
  IF k >= 0 THEN a > 0 /\ k * k * r < a * a
  ELSE a > 0 \/ k * k * r > a * a

\* IEEE comparisons: False as soon as an operand is NaN
Lt(x, y) ==
  /\ ~x.nan
  /\ ~y.nan
  /\ LET z == Sub(x, y) IN KSqrtLt(z.c, z.r, -z.n)

Gt(x, y) == Lt(y, x)

Eq(x, y) == ~x.nan /\ ~y.nan /\ ~Lt(x, y) /\ ~Lt(y, x)

Ge(x, y) == ~x.nan /\ ~y.nan /\ ~Lt(x, y)

Le(x, y) == Ge(y, x)

RECURSIVE Sum(_)
Sum(s) == IF s = <<>> THEN Int2Num(0) ELSE Add(Head(s), Sum(Tail(s)))

RECURSIVE Max(_)
Max(s) ==
  IF Len(s) = 1 THEN s[1]
  ELSE LET m == Max(Tail(s)) IN IF Lt(m, s[1]) THEN s[1] ELSE m

RECURSIVE Min(_)
Min(s) ==
  IF Len(s) = 1 THEN s[1]
  ELSE LET m == Min(Tail(s)) IN IF Lt(s[1], m) THEN s[1] ELSE m

AnyNaN(s) == \E i \in 1..Len(s) : s[i].nan

(***************************************************************************)
(* pandas rolling windows.  A window of w observations ending at row i     *)
(* yields NaN unless it is full (i >= w) and holds no NaN (min_periods     *)
(* defaults to the window); a window of length 0 holds no observation.     *)
(***************************************************************************)
Window(col, i, w) == SubSeq(col, i - w + 1, i)

\* a column of n rows, every row evaluated once
Column(f, n) == SubSeq(f, 1, n)

Full(col, i, w) == w >= 1 /\ i >= w /\ ~AnyNaN(Window(col, i, w))

Mean(s) == Div(Sum(s), Int2Num(Len(s)))

\* population standard deviation (ddof=0)
Std(s) ==
  LET m  == Mean(s)
      sq == Column([k \in 1..Len(s) |-> Mul(s[k], s[k])], Len(s))
  IN  Sqrt(Sub(Mean(sq), Mul(m, m)))

rolling_mean(col, w) ==
  Column([i \in 1..Len(col) |-> IF Full(col, i, w) THEN Mean(Window(col, i, w)) ELSE NaN],
         Len(col))

rolling_std(col, w) ==
  Column([i \in 1..Len(col) |-> IF Full(col, i, w) THEN Std(Window(col, i, w)) ELSE NaN],
         Len(col))

rolling_max(col, w) ==
  Column([i \in 1..Len(col) |-> IF Full(col, i, w) THEN Max(Window(col, i, w)) ELSE NaN],
         Len(col))

rolling_min(col, w) ==
  Column([i \in 1..Len(col) |-> IF Full(col, i, w) THEN Min(Window(col, i, w)) ELSE NaN],
         Len(col))

\* rows at which rolling(window=w).apply calls the function: with w = 0 the
\* count of observations (0) already reaches min_periods (0)
ApplyCalls(col, w) ==
  {i \in 1..Len(col) : w = 0 \/ Full(col, i, w)}

(***************************************************************************)
(* np.polyfit(fit_y, x, 1) for fit_y = 0..w-1, w >= 2: the least-squares   *)
(* line through (k, y[k+1]); <<slope, intercept>>.                         *)
(***************************************************************************)
polyfit(y) ==
  LET w   == Len(y)
      sx  == Int2Num((w * (w - 1)) \div 2)
      sxx == Int2Num(((w - 1) * w * (2 * w - 1)) \div 6)
      sy  == Sum(y)
      sxy == Sum(Column([k \in 1..w |-> Mul(y[k], Int2Num(k - 1))], w))
      wn  == Int2Num(w)
      a   == Div(Sub(Mul(sxy, wn), Mul(sy, sx)),
                 Sub(Mul(sxx, wn), Mul(sx, sx)))
      b   == Div(Sub(sy, Mul(a, sx)), wn)
  IN  <<a, b>>

\* the lambda of line 35
fit_value(y) ==
  Add(Mul(polyfit(y)[1], Int2Num(Len(y) - 1)), polyfit(y)[2])

\* outcomes of np.polyfit on a single point (x = [0], degree 1): the scaled
\* Vandermonde matrix holds 0/0, and lstsq either raises or returns NaN
SinglePointFits == {"LinAlgError", "nan"}

\* mutant: the deviation series passed through without the windowed fit
rolling_apply_passthrough(col, w) == col

rolling_apply(col, w) ==
  Column([i \in 1..Len(col) |->
            IF w >= 2 /\ Full(col, i, w) THEN fit_value(Window(col, i, w)) ELSE NaN],
         Len(col))

(***************************************************************************)
(* squeeze_indicator(df, length, mult, length_KC, mult_KC).  The result    *)
(* records the exception raised (if any), the frame as the call left it    *)
(* and the rolling statistics computed before the call ended.              *)
(***************************************************************************)
Rows(df) == Len(df.Close)

ColAdd(a, b) == Column([i \in 1..Len(a) |-> Add(a[i], b[i])], Len(a))

ColSub(a, b) == Column([i \in 1..Len(a) |-> Sub(a[i], b[i])], Len(a))

ColMul(a, k) == Column([i \in 1..Len(a) |-> Mul(a[i], k)], Len(a))

ColDiv(a, k) == Column([i \in 1..Len(a) |-> Div(a[i], k)], Len(a))

squeeze_on_col(df) ==
  Column([i \in 1..Rows(df) |->
            Gt(df.lower_BB[i], df.lower_KC[i]) /\ Lt(df.upper_BB[i], df.upper_KC[i])],
         Rows(df))

\* mutant: the Keltner columns swapped in the squeeze_off test
squeeze_off_col_swapped(df) ==
  Column([i \in 1..Rows(df) |->
            Lt(df.lower_BB[i], df.upper_KC[i]) /\ Gt(df.upper_BB[i], df.lower_KC[i])],
         Rows(df))

squeeze_off_col(df) ==
  Column([i \in 1..Rows(df) |->
            Lt(df.lower_BB[i], df.lower_KC[i]) /\ Gt(df.upper_BB[i], df.upper_KC[i])],
         Rows(df))

\* mutant: the Bollinger multiplier used for the Keltner channel
kc_offset_mult(range_ma) == ColMul(range_ma, Int2Num(mult))

\* range_ma * mult_KC (lines 24-25)
kc_offset(range_ma) == ColMul(range_ma, Rat(mult_KC_num, mult_KC_den))

\* df['ohlc4'] - (m1 + sma_hl2)/2 (lines 28-33): the series the fit runs over
deviation_series(df4, len_KC) ==
  LET highest  == rolling_max(df4.hl2, len_KC)
      lowest   == rolling_min(df4.Low, len_KC)
      sma_hl2  == rolling_mean(df4.hl2, len_KC)
      m1       == ColDiv(ColAdd(highest, lowest), Int2Num(2))
  IN  ColSub(df4.ohlc4, ColDiv(ColAdd(m1, sma_hl2), Int2Num(2)))

\* line 8
with_ohlc4(df) == ("ohlc4" :> df.Close) @@ df

\* lines 10-25: the Bollinger bands and the Keltner channel
with_bands(df, len, len_KC) ==
  LET m_avg1   == rolling_mean(df.ohlc4, len)
      m_avg2   == rolling_mean(df.ohlc4, len_KC)
      tr       == ColSub(df.High, df.Low)
      range_ma == rolling_mean(tr, len_KC)
      m_std    == rolling_std(df.ohlc4, len)
      dev      == ColMul(m_std, Int2Num(mult))
      kc       == kc_offset(range_ma)
  IN  ("tr" :> tr) @@
      ("upper_BB" :> ColAdd(m_avg1, dev)) @@
      ("lower_BB" :> ColSub(m_avg1, dev)) @@
      ("upper_KC" :> ColAdd(m_avg2, kc)) @@
      ("lower_KC" :> ColSub(m_avg2, kc)) @@ df

\* line 28
with_hl2(df) == ("hl2" :> ColDiv(ColAdd(df.High, df.Low), Int2Num(2))) @@ df

\* lines 29-33
with_deviation(df, len_KC) == ("value" :> deviation_series(df, len_KC)) @@ df

\* lines 34-37
with_value(df, len_KC) == ("value" :> rolling_apply(df.value, len_KC)) @@ df

\* lines 40-41
with_squeeze(df) ==
  ("squeeze_on" :> squeeze_on_col(df)) @@ ("squeeze_off" :> squeeze_off_col(df)) @@ df

\* the frame as line 33 leaves it
before_fit(df0, len, len_KC) ==
  with_deviation(with_hl2(with_bands(with_ohlc4(df0), len, len_KC)), len_KC)

\* the rolling statistics of lines 10-31
RollingStats ==
  {"m_avg1", "m_avg2", "range_ma", "m_std", "highest", "lowest", "sma_hl2"}

squeeze_indicator(df0, len, len_KC, fit1) ==
  IF len < 0
    THEN [err |-> "ValueError", df |-> with_ohlc4(df0), rolled |-> {}]
  ELSE IF len_KC < 0
    THEN [err |-> "ValueError", df |-> with_ohlc4(df0), rolled |-> {"m_avg1"}]
  ELSE
    LET df5   == before_fit(df0, len, len_KC)
        calls == ApplyCalls(df5.value, len_KC)
    IN  IF len_KC = 0 /\ calls # {}
          THEN [err |-> "TypeError", df |-> df5, rolled |-> RollingStats]
        ELSE IF len_KC = 1 /\ calls # {} /\ fit1 = "LinAlgError"
          THEN [err |-> "LinAlgError", df |-> df5, rolled |-> RollingStats]
        ELSE [err |-> "none", df |-> with_squeeze(with_value(df5, len_KC)),
              rolled |-> RollingStats \cup {"value"}]

(***************************************************************************)
(* Bar loading (lines 53-55).  A token is the text between two commas: a   *)
(* decimal number or text float() rejects.                                 *)
(***************************************************************************)
Tok(v) == [kind |-> "num", v |-> v]
BadTok == [kind |-> "bad", v |-> 0]
None == [kind |-> "none", v |-> 0]

Columns == <<"Timestamp", "Open", "High", "Low", "Close", "Volume">>

\* data = [data[x:x+6] for x in range(0, len(data), 6)]
Chunks(toks) ==
  [k \in 1..((Len(toks) + NCols - 1) \div NCols) |->
     SubSeq(toks, NCols * (k - 1) + 1,
            IF NCols * k < Len(toks) THEN NCols * k ELSE Len(toks))]

\* pd.DataFrame pads ragged rows with None up to the longest row
RowWidth(chunks) ==
  IF \E k \in 1..Len(chunks) : Len(chunks[k]) = NCols THEN NCols ELSE Len(chunks[1])

Padded(chunks) ==
  [k \in 1..Len(chunks) |->
     [j \in 1..RowWidth(chunks) |->
        IF j <= Len(chunks[k]) THEN chunks[k][j] ELSE None]]

\* astype('float') of one cell: float(text), None becomes NaN
ToFloat(cell) == IF cell.kind = "num" THEN Int2Num(cell.v) ELSE NaN

ColIndex(name) == CHOOSE j \in 1..NCols : Columns[j] = name

\* the frame of line 55, or the exception it raises
LoadFrame(toks) ==
  LET chunks == Chunks(toks)
      rows   == Padded(chunks)
  IN  IF RowWidth(chunks) # NCols
        THEN [err |-> "ValueError", df |-> <<>>]
      ELSE IF \E k \in 1..Len(rows) : \E j \in 1..NCols : rows[k][j].kind = "bad"
        THEN [err |-> "ValueError", df |-> <<>>]
      ELSE [err |-> "none",
            df  |-> [name \in {Columns[j] : j \in 1..NCols} |->
                       Column([k \in 1..Len(rows) |-> ToFloat(rows[k][ColIndex(name)])],
                              Len(rows))]]

(***************************************************************************)
(* The colour loop (lines 62-78); ind is the 0-based index of the source.  *)
(***************************************************************************)
Zero == Int2Num(0)

\* mutant: a value equal to its predecessor counts as rising or falling
Color_inclusive(vals, ind) ==
  LET val == vals[ind + 1]
  IN  IF ind = 0
        THEN IF Ge(val, Zero) THEN "lime" ELSE "red"
      ELSE IF Ge(val, Zero)
        THEN IF Ge(val, vals[ind]) THEN "lime" ELSE "green"
      ELSE IF Le(val, vals[ind]) THEN "red" ELSE "maroon"

Color(vals, ind) ==
  LET val == vals[ind + 1]
  IN  IF ind = 0
        THEN IF Ge(val, Zero) THEN "lime" ELSE "red"
      ELSE IF Ge(val, Zero)
        THEN IF Gt(val, vals[ind]) THEN "lime" ELSE "green"
      ELSE IF Lt(val, vals[ind]) THEN "red" ELSE "maroon"

\* rows whose value is an operand of a comparison of the loop: val >= 0 is
\* evaluated for every row (line 65 or 70)
ComparedRows(vals) == {i \in 1..Len(vals) : i - 1 = 0 \/ i - 1 > 0}

\* mutant: rows without a momentum value are skipped
Colors_defined_only(vals) ==
  LET def == SelectSeq(vals, LAMBDA v : ~v.nan)
  IN  Column([i \in 1..Len(def) |-> Color(def, i - 1)], Len(def))

Colors(vals) == Column([i \in 1..Len(vals) |-> Color(vals, i - 1)], Len(vals))

(***************************************************************************)
(* Inputs: the payload sys.argv[1].split(',') and the parameter setup.     *)
(***************************************************************************)
\* the six tokens of a bar closing at c with a high s above its low and close
BarTokens(c, s) == <<Tok(0), Tok(c), Tok(c + s), Tok(c), Tok(c), Tok(0)>>

BarShapes == (0..MaxPrice) \X {0, 1}

RECURSIVE Tokens(_)
Tokens(bs) ==
  IF bs = <<>> THEN <<>>
  ELSE BarTokens(Head(bs)[1], Head(bs)[2]) \o Tokens(Tail(bs))

\* payloads of 1..MaxBars well-formed bars
BarPayloads ==
  UNION {{Tokens(bs) : bs \in [1..n -> BarShapes]} : n \in 1..MaxBars}

\* payloads whose token count is no multiple of six
RaggedPayloads ==
  {Tokens([k \in 1..n |-> <<1, 1>>]) \o [j \in 1..q |-> Tok(1)] :
     n \in 0..2, q \in 1..(NCols - 1)}

\* payloads with a token float() rejects; <<BadTok>> is the empty string
BadPayloads ==
  {[j \in 1..NCols |-> IF j = b THEN BadTok ELSE Tok(1)] : b \in 1..NCols}
    \cup {<<BadTok>>}

\* the flat series: close 10, high 11, low 9
FlatPayload ==
  [j \in 1..(NCols * FlatBars) |->
     CASE j % NCols = 3 -> Tok(11)
       [] j % NCols = 4 -> Tok(9)
       [] j % NCols = 0 -> Tok(0)
       [] OTHER -> Tok(10)]

Payloads == BarPayloads \cup RaggedPayloads \cup BadPayloads \cup {FlatPayload}

\* window lengths tried besides those of __main__: one window ranges over
\* -1..MaxLen while the other is MaxLen
Lengths == -1..MaxLen

ParamChoices ==
  {p \in Lengths \X Lengths : p[1] = MaxLen \/ p[2] = MaxLen}
    \cup {<<MainLength, MainLengthKC>>}

(***************************************************************************)
(* State.                                                                  *)
(***************************************************************************)
VARIABLES
  data,       \* the tokens of the payload
  length,     \* window of the Bollinger bands
  length_KC,  \* window of the Keltner channel and of the fit
  pc,         \* position of the script
  err,        \* the exception that ended the run, or "none"
  df,         \* the frame: column name -> column
  rolled,     \* rolling statistics squeeze_indicator has computed
  values,     \* df['value'].values.tolist()
  colors,     \* the list the colour loop builds
  out         \* what was printed

vars == <<data, length, length_KC, pc, err, df, rolled, values, colors, out>>

Init ==
  /\ data \in Payloads
  /\ \E p \in ParamChoices : length = p[1] /\ length_KC = p[2]
  /\ pc = "start"
  /\ err = "none"
  /\ df = <<>>
  /\ rolled = {}
  /\ values = <<>>
  /\ colors = <<>>
  /\ out = <<>>

\* lines 53-55: the frame is built and cast, or the script ends with the
\* traceback of the exception raised
Load ==
  /\ pc = "start"
  /\ \E res \in {LoadFrame(data)} :
       /\ err' = res.err
       /\ df' = res.df
       /\ pc' = IF res.err = "none" THEN "loaded" ELSE "load_failed"
  /\ UNCHANGED <<data, length, length_KC, rolled, values, colors, out>>

\* outcomes of polyfit the build decides; they differ only for length_KC = 1
FitChoices(len_KC) == IF len_KC = 1 THEN SinglePointFits ELSE {"nan"}

\* line 57: squeeze_indicator returns the frame or raises
Compute ==
  /\ pc = "loaded"
  /\ \E fit1 \in FitChoices(length_KC) :
       \E res \in {squeeze_indicator(df, length, length_KC, fit1)} :
         /\ err' = res.err
         /\ df' = res.df
         /\ rolled' = res.rolled
         /\ pc' = IF res.err = "none" THEN "computed" ELSE "engine_failed"
  /\ UNCHANGED <<data, length, length_KC, values, colors, out>>

\* lines 59-78: the values and the colour of every row
Classify ==
  /\ pc = "computed"
  /\ values' = df.value
  /\ colors' = Colors(df.value)
  /\ pc' = "classified"
  /\ UNCHANGED <<data, length, length_KC, err, df, rolled, out>>

\* line 80: print([values, colors])
Emit ==
  /\ pc = "classified"
  /\ out' = <<values, colors>>
  /\ pc' = "done"
  /\ UNCHANGED <<data, length, length_KC, err, df, rolled, values, colors>>

Next == Load \/ Compute \/ Classify \/ Emit

Spec == Init /\ [][Next]_vars

(***************************************************************************)
(* Vocabulary of the properties.  Rows are numbered from 1 here; row i is  *)
(* index i - 1 of the source.                                              *)
(***************************************************************************)
Labels == {"lime", "green", "maroon", "red"}

\* squeeze_indicator has returned: df holds every derived column
Returned == pc \in {"computed", "classified", "done"}

\* the colour loop has run
Coloured == pc \in {"classified", "done"}

\* every bar of the frame has a numeric high, low and close
NumericBars ==
  \A i \in 1..Rows(df) : ~df.High[i].nan /\ ~df.Low[i].nan /\ ~df.Close[i].nan

\* the payload is a positive number of full bars and both windows are valid
WellFormed ==
  /\ Len(data) % NCols = 0
  /\ length >= 1
  /\ length_KC >= 1

\* the first row whose momentum value is defined
IsFirstDefined(vals, i) ==
  ~vals[i].nan /\ \A j \in 1..(i - 1) : vals[j].nan

(***************************************************************************)
(* C1: the colour at the first index whose momentum value is defined is    *)
(* lime if that value is >= 0 and red otherwise, also when that index is   *)
(* not index 0.                                                            *)
(***************************************************************************)
C1_FirstDefinedColour ==
  (Coloured /\ WellFormed) =>
    \A i \in 1..Len(values) :
      IsFirstDefined(values, i) =>
        colors[i] = IF Ge(values[i], Zero) THEN "lime" ELSE "red"

(***************************************************************************)
(* C2: an index whose momentum value is undefined carries none of the four *)
(* labels, and the colour loop compares no undefined momentum value.       *)
(***************************************************************************)
C2_UndefinedUnlabelled ==
  Coloured =>
    \A i \in 1..Len(values) :
      values[i].nan =>
        /\ colors[i] \notin Labels
        /\ i \notin ComparedRows(values)

(***************************************************************************)
(* C3: a payload whose token count is no positive multiple of six fails    *)
(* to load: no indicator computation runs and nothing is printed.          *)
(***************************************************************************)
C3_RaggedRejected ==
  Len(data) % NCols # 0 =>
    /\ pc \in {"start", "load_failed"}
    /\ rolled = {}
    /\ out = <<>>

(***************************************************************************)
(* C4 as claimed: for at least length_KC numeric bars the momentum value   *)
(* is undefined exactly at indices 0..length_KC-2 (stated here for the     *)
(* windows length_KC >= 2, on which the fit is well defined).              *)
(***************************************************************************)
C4_SingleWindow ==
  (Returned /\ WellFormed /\ NumericBars /\ length_KC >= 2 /\ Rows(df) >= length_KC) =>
    \A i \in 1..Rows(df) : df.value[i].nan <=> i <= length_KC - 1

(***************************************************************************)
(* C4 as amended: over numeric bars and with length_KC >= 2 the momentum   *)
(* value is undefined exactly at indices 0..2*length_KC-3 (the fit runs    *)
(* over a deviation series that is itself windowed over length_KC bars);   *)
(* with length_KC = 1 no index holds a defined value.                      *)
(***************************************************************************)
C4_DoubleWindow ==
  (Returned /\ NumericBars /\ length_KC >= 1) =>
    \A i \in 1..Rows(df) :
      df.value[i].nan <=> (length_KC = 1 \/ i <= 2 * length_KC - 2)

C4_Witness ==
  /\ pc = "done"
  /\ NumericBars
  /\ length_KC >= 2
  /\ Len(values) >= 2 * length_KC
  /\ values[2 * length_KC - 2].nan
  /\ ~values[2 * length_KC - 1].nan

(***************************************************************************)
(* C5: squeeze_on and squeeze_off are never both true at the same index.   *)
(***************************************************************************)
C5_SqueezeExclusive ==
  Returned =>
    \A i \in 1..Rows(df) : ~(df.squeeze_on[i] /\ df.squeeze_off[i])

\* one frame with a squeeze that is on, one that is off, and neither flag
\* at an index whose bands are undefined
C5_Witness ==
  /\ Returned
  /\ \E i \in 1..Rows(df) : df.squeeze_on[i]
  /\ \E i \in 1..Rows(df) : df.squeeze_off[i]
  /\ \E i \in 1..Rows(df) :
       df.upper_BB[i].nan /\ ~df.squeeze_on[i] /\ ~df.squeeze_off[i]

(***************************************************************************)
(* C6: for an accepted payload of n bars the printed values and colours    *)
(* both have n entries, entry i belonging to bar i of the payload.         *)
(***************************************************************************)
C6_OutputAligned ==
  pc = "done" =>
    LET n == (Len(data) + NCols - 1) \div NCols
    IN  /\ Len(out[1]) = n
        /\ Len(out[2]) = n
        /\ out[1] = df.value
        /\ \A i \in 1..n :
             /\ NCols * (i - 1) + 5 <= Len(data) =>
                  df.Close[i] = ToFloat(data[NCols * (i - 1) + 5])
             /\ out[2][i] \in Labels

C6_Witness ==
  /\ pc = "done"
  /\ Len(out[1]) = MaxBars
  /\ \E i \in 1..Len(out[1]) : ~out[1][i].nan
  /\ \E i \in 1..Len(out[1]) : out[1][i].nan

(***************************************************************************)
(* C7: with length <= 0 or length_KC <= 0 squeeze_indicator raises before  *)
(* any rolling statistic is computed and returns no frame of derived        *)
(* sequences.                                                              *)
(***************************************************************************)
C7_InvalidParameter ==
  (length <= 0 \/ length_KC <= 0) =>
    /\ ~Returned
    /\ rolled = {}

(***************************************************************************)
(* C8: at an index i > 0 where value[i] and value[i-1] are defined the     *)
(* colour is lime for value >= 0 rising, green for value >= 0 not rising,  *)
(* red for value < 0 falling and maroon for value < 0 not falling.         *)
(***************************************************************************)
C8_ColourRule ==
  Coloured =>
    \A i \in 2..Len(values) :
      (~values[i].nan /\ ~values[i - 1].nan) =>
        /\ (Ge(values[i], Zero) /\ Gt(values[i], values[i - 1]))
             => colors[i] = "lime"
        /\ (Ge(values[i], Zero) /\ Le(values[i], values[i - 1]))
             => colors[i] = "green"
        /\ (Lt(values[i], Zero) /\ Lt(values[i], values[i - 1]))
             => colors[i] = "red"
        /\ (Lt(values[i], Zero) /\ Ge(values[i], values[i - 1]))
             => colors[i] = "maroon"

\* a negative value above its defined predecessor, coloured maroon
C8_Witness ==
  /\ Coloured
  /\ \E i \in 2..Len(values) :
       /\ ~values[i].nan
       /\ ~values[i - 1].nan
       /\ Lt(values[i], Zero)
       /\ Gt(values[i], values[i - 1])
       /\ colors[i] = "maroon"

(***************************************************************************)
(* C9: the flat series (close 10, high 11, low 9) under length =           *)
(* length_KC = 20.                                                         *)
(***************************************************************************)
FlatRun ==
  /\ data = FlatPayload
  /\ length = MainLength
  /\ length_KC = MainLengthKC
  /\ Returned

BandsUndefined(i) ==
  /\ df.upper_BB[i].nan
  /\ df.lower_BB[i].nan
  /\ df.upper_KC[i].nan
  /\ df.lower_KC[i].nan

\* C9 as claimed: from index 19 on upper_BB = lower_BB = 10, upper_KC = 12.5,
\* lower_KC = 7.5, squeeze_on and not squeeze_off; before, no band
C9_FlatBands ==
  FlatRun =>
    \A i \in 1..Rows(df) :
      IF i >= MainLength
        THEN /\ Eq(df.upper_BB[i], Int2Num(10))
             /\ Eq(df.lower_BB[i], Int2Num(10))
             /\ Eq(df.upper_KC[i], Rat(25, 2))
             /\ Eq(df.lower_KC[i], Rat(15, 2))
             /\ df.squeeze_on[i]
             /\ ~df.squeeze_off[i]
        ELSE BandsUndefined(i)

\* C9 as amended: from index 19 on upper_BB = lower_BB = 10, upper_KC = 13,
\* lower_KC = 7 (range_ma = 2, times 1.5), squeeze_on and not squeeze_off;
\* at indices 0..18 the bands are undefined
C9_FlatBandsAmended ==
  FlatRun =>
    \A i \in 1..Rows(df) :
      IF i >= MainLength
        THEN /\ Eq(df.upper_BB[i], Int2Num(10))
             /\ Eq(df.lower_BB[i], Int2Num(10))
             /\ Eq(df.upper_KC[i], Int2Num(13))
             /\ Eq(df.lower_KC[i], Int2Num(7))
             /\ df.squeeze_on[i]
             /\ ~df.squeeze_off[i]
        ELSE BandsUndefined(i)

C9_Witness ==
  /\ FlatRun
  /\ Rows(df) = FlatBars
  /\ df.squeeze_on[FlatBars]
  /\ BandsUndefined(MainLength - 1)

(***************************************************************************)
(* C10: a defined value[i] is the least-squares line through the trailing  *)
(* length_KC deviations (oldest at x = 0) evaluated at x = length_KC - 1:  *)
(* the deviations weighted by 2(3k - w + 2)/(w(w + 1)), k = 0..w-1; it is  *)
(* deviation_series[i] when the window is affine, and for length_KC = 1    *)
(* it is deviation_series[i] itself.                                       *)
(***************************************************************************)
Deviations == deviation_series(df, length_KC)

LineEnd(y) ==
  LET w == Len(y)
  IN  Sum(Column([k \in 1..w |-> Mul(y[k], Rat(2 * (3 * (k - 1) - w + 2), w * (w + 1)))],
             w))

Affine(y) ==
  \A k \in 2..(Len(y) - 1) : Eq(Sub(y[k + 1], y[k]), Sub(y[k], y[k - 1]))

C10_FitRegression ==
  Returned =>
    LET dev == Deviations
    IN  \A i \in 1..Rows(df) :
          ~df.value[i].nan =>
            /\ i >= length_KC
            /\ Eq(df.value[i], LineEnd(Window(dev, i, length_KC)))
            /\ Affine(Window(dev, i, length_KC)) => Eq(df.value[i], dev[i])

C10_FitAtLast ==
  /\ C10_FitRegression
  /\ (length_KC = 1 /\ length >= 0 /\ pc \in {"computed", "engine_failed"} /\ NumericBars) =>
       /\ pc = "computed"
       /\ \A i \in 1..Rows(df) : Eq(df.value[i], Deviations[i])

====
